---- MODULE Spec2Model ----
(***************************************************************************)
(* InventoryManager (main.py): the record access layer over the SQLite     *)
(* table "inventory": init_db, create_item, read_items, update_item and    *)
(* delete_item, as a state machine.                                        *)
(*                                                                         *)
(* A Python str / SQLite TEXT value is a sequence of one-character         *)
(* strings, so that parsing (strptime), LIKE matching and ORDER BY are     *)
(* computed character by character.  What a method prints is recorded in   *)
(* last.out, what it returns in ret.                                       *)
(***************************************************************************)
EXTENDS Integers, Sequences, FiniteSets, TLC

\* ------------------------------------------------------------------ text

E == <<>>

Digits == {"0", "1", "2", "3", "4", "5", "6", "7", "8", "9"}

DigitVal(c) ==
    CASE c = "0" -> 0 [] c = "1" -> 1 [] c = "2" -> 2 [] c = "3" -> 3
      [] c = "4" -> 4 [] c = "5" -> 5 [] c = "6" -> 6 [] c = "7" -> 7
      [] c = "8" -> 8 [] c = "9" -> 9

DigitChar(n) ==
    CASE n = 0 -> "0" [] n = 1 -> "1" [] n = 2 -> "2" [] n = 3 -> "3"
      [] n = 4 -> "4" [] n = 5 -> "5" [] n = 6 -> "6" [] n = 7 -> "7"
      [] n = 8 -> "8" [] n = 9 -> "9"

\* The characters the model's texts are made of, in code point order
\* (the order of SQLite's BINARY collation).
Alphabet ==
    <<" ", "%", "-", "0", "1", "2", "3", "4", "5", "6", "7", "8", "9",
      "A", "B", "_", "a", "b", "c", "l", "n", "r", "s", "x">>

Ord(c) == CHOOSE i \in 1..Len(Alphabet) : Alphabet[i] = c

\* str(n) of a Python int / CAST(n AS TEXT) of an SQLite INTEGER.
RECURSIVE NatText(_)
NatText(n) == IF n < 10 THEN <<DigitChar(n)>>
              ELSE NatText(n \div 10) \o <<DigitChar(n % 10)>>

IntText(n) == IF n < 0 THEN <<"-">> \o NatText(-n) ELSE NatText(n)

\* ------------------------------------------------- datetime.strptime
\* datetime.strptime(s, '%Y-%m-%d') (main.py:35, main.py:94).  The format
\* compiles to the regular expression
\*   (?P<Y>\d\d\d\d)-(?P<m>1[0-2]|0[1-9]|[1-9])-(?P<d>3[0-1]|[1-2]\d|0[1-9]|[1-9]| [1-9])
\* which is matched at the start of s; text left over after the match and
\* a day the month does not have are ValueErrors too.

At(s, i) == IF i >= 1 /\ i <= Len(s) THEN s[i] ELSE "$"

IsDigit(c) == c \in Digits

\* Length of the month group at position 6, 0 when no alternative matches
\* there with the "-" that must follow.
MonthLen(s) ==
    IF At(s, 6) = "1" /\ At(s, 7) \in {"0", "1", "2"} /\ At(s, 8) = "-" THEN 2
    ELSE IF At(s, 6) = "0" /\ At(s, 7) \in (Digits \ {"0"}) /\ At(s, 8) = "-" THEN 2
    ELSE IF At(s, 6) \in (Digits \ {"0"}) /\ At(s, 7) = "-" THEN 1
    ELSE 0

\* Length of the day group at position p: the first alternative that
\* matches there, 0 when none does.
DayLen(s, p) ==
    IF At(s, p) = "3" /\ At(s, p + 1) \in {"0", "1"} THEN 2
    ELSE IF At(s, p) \in {"1", "2"} /\ IsDigit(At(s, p + 1)) THEN 2
    ELSE IF At(s, p) = "0" /\ At(s, p + 1) \in (Digits \ {"0"}) THEN 2
    ELSE IF At(s, p) \in (Digits \ {"0"}) THEN 1
    ELSE IF At(s, p) = " " /\ At(s, p + 1) \in (Digits \ {"0"}) THEN 2
    ELSE 0

RECURSIVE Number(_)
Number(s) == IF s = <<>> THEN 0
             ELSE 10 * Number(SubSeq(s, 1, Len(s) - 1))
                  + (IF IsDigit(s[Len(s)]) THEN DigitVal(s[Len(s)]) ELSE 0)

IsLeap(y) == y % 4 = 0 /\ (y % 100 # 0 \/ y % 400 = 0)

DaysInMonth(y, m) ==
    IF m = 2 THEN (IF IsLeap(y) THEN 29 ELSE 28)
    ELSE IF m \in {4, 6, 9, 11} THEN 30 ELSE 31

MsgNoMatch == "ValueError: time data does not match format"
MsgUnconverted == "ValueError: unconverted data remains"
MsgOutOfRange == "ValueError: out of range"

\* "ok", or the ValueError strptime raises.
strptime(s) ==
    LET yearOk == \A i \in 1..4 : IsDigit(At(s, i))
        ml == MonthLen(s)
        dp == 6 + ml + 1
        dl == DayLen(s, dp)
        y == Number(SubSeq(s, 1, 4))
        m == Number(SubSeq(s, 6, 5 + ml))
        d == Number(SubSeq(s, dp, dp + dl - 1))
    IN  IF ~(yearOk /\ At(s, 5) = "-" /\ ml > 0 /\ dl > 0) THEN MsgNoMatch
        ELSE IF dp + dl - 1 # Len(s) THEN MsgUnconverted
        ELSE IF y < 1 \/ d > DaysInMonth(y, m) THEN MsgOutOfRange
        ELSE "ok"

\* ------------------------------------------------------------ the table
\* CREATE TABLE inventory (main.py:13-23): id INTEGER PRIMARY KEY
\* AUTOINCREMENT and eight data columns.

Columns ==
    {"id", "name", "category", "quantity", "purchase_date", "status",
     "location", "responsible_person", "notes"}

IntegerColumns == {"id", "quantity"}

\* The largest id the model lets the AUTOINCREMENT counter reach.
MaxId == 2

ItemIds == 1..MaxId

\* The most connections the model lets be open at once.
MaxConnections == 2

VARIABLES
    inventory,        \* the table: id -> the row's eight data columns
    sqlite_sequence,  \* AUTOINCREMENT's counter: the largest id ever given
    last,             \* the last call: [op, args, out (what it printed)]
    ret,              \* what the last call returned
    before,           \* history: the table when the last call began
    issued,           \* history: the ids given by create_item, in order
    varied,           \* the columns whose values the callers vary
    connections,      \* the sqlite3 connections that are open
    watched           \* whether the behaviour watches the storage engine:
                      \* counts its connections and lets its statements fail

vars ==
    <<inventory, sqlite_sequence, last, ret, before, issued, varied, connections,
      watched>>

\* A method that returns nothing returns None; read_items returns a list.
None == [none |-> TRUE, rows |-> <<>>]
List(rows) == [none |-> FALSE, rows |-> rows]

Max(S) == CHOOSE x \in S : \A y \in S : y <= x

Range(s) == {s[i] : i \in 1..Len(s)}

\* ------------------------------------------------------------- inputs
\* The values the callers pass.  Each behaviour varies the columns of one
\* profile (the two validated columns together, or one of the others);
\* the other columns keep the value of Base.

D_ok == <<"2", "0", "2", "4", "-", "0", "1", "-", "1", "5">>
D_short == <<"2", "0", "2", "4", "-", "1", "-", "5">>
D_month13 == <<"2", "0", "2", "4", "-", "1", "3", "-", "4", "0">>
D_dmy == <<"0", "1", "-", "0", "1", "-", "2", "0", "2", "4">>
D_feb29 == <<"2", "0", "2", "3", "-", "0", "2", "-", "2", "9">>

Base ==
    [name |-> <<"a">>, category |-> <<"c">>, quantity |-> 1,
     purchase_date |-> D_ok, status |-> <<"s">>, location |-> <<"l">>,
     responsible_person |-> E, notes |-> E]

CreateVals ==
    [name |-> {E, <<"a">>, <<"B">>}, category |-> {E, <<"c">>}, quantity |-> {-1, 0, 1},
     purchase_date |-> {E, D_ok, D_month13, D_feb29},
     status |-> {E, <<"s">>}, location |-> {E, <<"l">>},
     responsible_person |-> {E, <<"r">>}, notes |-> {E, <<"n">>}]

UpdateVals ==
    [name |-> {E, <<"a">>}, category |-> {E, <<"c">>}, quantity |-> {-1, 0},
     purchase_date |-> {E, D_short, D_dmy},
     status |-> {E, <<"s">>}, location |-> {E, <<"l">>},
     responsible_person |-> {E, <<"r">>}, notes |-> {E, <<"n">>},
     id |-> {2}]

\* The columns the callers of update_item also pass as None.
NoneFields == {"category", "quantity", "status", "responsible_person"}

Profiles ==
    {{"quantity", "purchase_date"}, {"name"}, {"category"}, {"status"},
     {"location"}, {"responsible_person"}, {"notes"}}

\* Keyword names update_item does not know (main.py:84).
Unrecognized == {"id"}

CreateChoice(f, v) == IF f \in v THEN CreateVals[f] ELSE {Base[f]}

\* The argument lists of create_item; an omitted responsible_person or
\* notes is the default "" (main.py:27).
CreateCalls(v) ==
    [name : CreateChoice("name", v), category : CreateChoice("category", v),
     quantity : CreateChoice("quantity", v),
     purchase_date : CreateChoice("purchase_date", v),
     status : CreateChoice("status", v), location : CreateChoice("location", v),
     responsible_person : CreateChoice("responsible_person", v),
     notes : CreateChoice("notes", v)]

\* One keyword argument of update_item: a value, or None.
KwValue(f, x) == [field |-> f, kind |-> "value", value |-> x]
KwNone(f) == [field |-> f, kind |-> "None", value |-> 0]

KwEntries(v) ==
    UNION {{KwValue(f, x) : x \in UpdateVals[f]} : f \in v \cup Unrecognized}
    \cup {KwNone(f) : f \in v \cap NoneFields}

\* **kwargs: no, one or two keyword arguments in the order given, no name
\* twice.
Kwargs(v) ==
    {<<>>} \cup {<<a>> : a \in KwEntries(v)}
    \cup {kw \in {<<a, b>> : a, b \in KwEntries(v)} : kw[1].field # kw[2].field}

\* Filters of read_items: the dict's entries in order; a value is a str
\* or an int.  None and {} are both falsy at main.py:60 and are the empty
\* sequence here.
FilterStr(k, x) == [key |-> k, kind |-> "str", value |-> x]
FilterInt(k, n) == [key |-> k, kind |-> "int", value |-> n]

Filters ==
    {<<>>, <<FilterStr("name", E)>>, <<FilterStr("name", <<"a">>)>>,
     <<FilterStr("name", <<"b">>)>>, <<FilterStr("name", <<"_">>)>>,
     <<FilterStr("color", <<"x">>)>>}
    \cup {<<FilterInt("id", n)>> : n \in ItemIds}

\* A call leaves its name, its arguments and what it printed in last, and
\* the table it found in before.
Called(op, args, out) ==
    /\ last' = [op |-> op, args |-> args, out |-> out]
    /\ before' = inventory

\* sqlite3.connect(self.db_name) opens a connection.  The with block
\* commits or rolls back when it is left and does not close the connection,
\* which stays open until the garbage collector frees it.
Connect ==
    /\ connections < MaxConnections
    /\ connections' = IF watched THEN connections + 1 ELSE connections

\* What the engine does with the statement of a call: in a watched
\* behaviour it may raise sqlite3.Error.
Engine == IF watched THEN {"ok", "fails"} ELSE {"ok"}

\* What the except sqlite3.Error clauses print.
MsgDb == "db_error"
MsgRead == "read_error"
MsgDelete == "delete_error"

\* ------------------------------------------------------- create_item

MsgRequired == "ValueError: required fields must be filled"
MsgNegative == "ValueError: quantity cannot be negative"

\* create_item without the date check of main.py:35.
CreateCheckNoDate(name, category, quantity, purchase_date, status, location) ==
    IF \E x \in {name, category, purchase_date, status, location} : x = E
    THEN MsgRequired
    ELSE IF quantity < 0 THEN MsgNegative
    ELSE "ok"

\* The checks in another order: the date first.
CreateCheckDateFirst(name, category, quantity, purchase_date, status, location) ==
    IF strptime(purchase_date) # "ok" THEN strptime(purchase_date)
    ELSE IF \E x \in {name, category, purchase_date, status, location} : x = E
    THEN MsgRequired
    ELSE IF quantity < 0 THEN MsgNegative
    ELSE "ok"

\* The checks of main.py:29-35 in their order: "ok", or the ValueError.
CreateCheck(name, category, quantity, purchase_date, status, location) ==
    IF \E x \in {name, category, purchase_date, status, location} : x = E
    THEN MsgRequired
    ELSE IF quantity < 0 THEN MsgNegative
    ELSE strptime(purchase_date)

\* The id of a table declared without AUTOINCREMENT: one more than the
\* largest id the table holds now.
NextRowidWithoutAutoincrement == Max({0} \cup DOMAIN inventory) + 1

\* The id INSERT gives a row of an AUTOINCREMENT table: one more than the
\* largest id the table ever held.
NextRowid == Max({sqlite_sequence} \cup DOMAIN inventory) + 1

\* An INSERT whose values for status and location are exchanged.
InsertSwapped(id, name, category, quantity, purchase_date, status, location, responsible_person, notes) ==
    [i \in DOMAIN inventory \cup {id} |->
        IF i = id
        THEN [name |-> name, category |-> category, quantity |-> quantity,
              purchase_date |-> purchase_date, status |-> location,
              location |-> status, responsible_person |-> responsible_person,
              notes |-> notes]
        ELSE inventory[i]]

\* INSERT INTO inventory (name, ..., notes) VALUES (?, ..., ?).
Insert(id, name, category, quantity, purchase_date, status, location, responsible_person, notes) ==
    [i \in DOMAIN inventory \cup {id} |->
        IF i = id
        THEN [name |-> name, category |-> category, quantity |-> quantity,
              purchase_date |-> purchase_date, status |-> status,
              location |-> location, responsible_person |-> responsible_person,
              notes |-> notes]
        ELSE inventory[i]]

create_item(name, category, quantity, purchase_date, status, location, responsible_person, notes) ==
    LET err == CreateCheck(name, category, quantity, purchase_date, status, location)
        args == [name |-> name, category |-> category, quantity |-> quantity,
                 purchase_date |-> purchase_date, status |-> status,
                 location |-> location, responsible_person |-> responsible_person,
                 notes |-> notes]
    IN  IF err # "ok"
        THEN /\ Called("create_item", args, err)
             /\ ret' = None
             /\ UNCHANGED <<inventory, sqlite_sequence, issued, varied,
                            connections, watched>>
        ELSE \E engine \in Engine :
               IF engine = "fails"
               THEN /\ Connect
                    /\ Called("create_item", args, MsgDb)
                    /\ ret' = None
                    /\ UNCHANGED <<inventory, sqlite_sequence, issued, varied, watched>>
               ELSE /\ NextRowid <= MaxId
                    /\ Connect
                    /\ Called("create_item", args, "added")
                    /\ inventory' = Insert(NextRowid, name, category, quantity,
                                           purchase_date, status, location,
                                           responsible_person, notes)
                    /\ sqlite_sequence' = NextRowid
                    /\ issued' = Append(issued, NextRowid)
                    /\ ret' = None
                    /\ UNCHANGED <<varied, watched>>

\* ------------------------------------------------------- update_item

\* A list of fields that also lets id through.
valid_fields_with_id ==
    {"id", "name", "category", "quantity", "purchase_date", "status", "location",
     "responsible_person", "notes"}

valid_fields ==
    {"name", "category", "quantity", "purchase_date", "status", "location",
     "responsible_person", "notes"}

\* An entry the loop of main.py:88-97 takes up.
Taken(e) == e.field \in valid_fields /\ e.kind # "None"

\* The loop without the quantity check of main.py:90-91.
RECURSIVE KwCheckNoQuantity(_)
KwCheckNoQuantity(kw) ==
    IF kw = <<>> THEN "ok"
    ELSE LET e == Head(kw)
         IN  IF Taken(e) /\ e.field = "purchase_date" /\ strptime(e.value) # "ok"
             THEN strptime(e.value)
             ELSE KwCheckNoQuantity(Tail(kw))

\* A loop that raises for a name it does not know.
RECURSIVE KwCheckRejectsUnknown(_)
KwCheckRejectsUnknown(kw) ==
    IF kw = <<>> THEN "ok"
    ELSE LET e == Head(kw)
         IN  IF e.field \notin valid_fields THEN "ValueError: unknown field"
             ELSE IF Taken(e) /\ e.field = "quantity" /\ e.value < 0 THEN MsgNegative
             ELSE IF Taken(e) /\ e.field = "purchase_date" /\ strptime(e.value) # "ok"
                  THEN strptime(e.value)
             ELSE KwCheckRejectsUnknown(Tail(kw))

\* The loop of main.py:88-97: the ValueError of the first entry that
\* raises one, "ok" when none does.
RECURSIVE KwCheck(_)
KwCheck(kw) ==
    IF kw = <<>> THEN "ok"
    ELSE LET e == Head(kw)
         IN  IF Taken(e) /\ e.field = "quantity" /\ e.value < 0 THEN MsgNegative
             ELSE IF Taken(e) /\ e.field = "purchase_date" /\ strptime(e.value) # "ok"
                  THEN strptime(e.value)
             ELSE KwCheck(Tail(kw))

update_fields(kw) == SelectSeq(kw, Taken)

\* An UPDATE that adds to the stored value: SET f = f || ?, and
\* SET quantity = quantity + ?.
SetFieldsAdding(row, uf) ==
    [f \in DOMAIN row |->
        IF \E i \in 1..Len(uf) : uf[i].field = f
        THEN IF f = "quantity"
             THEN row[f] + uf[CHOOSE i \in 1..Len(uf) : uf[i].field = f].value
             ELSE row[f] \o uf[CHOOSE i \in 1..Len(uf) : uf[i].field = f].value
        ELSE row[f]]

\* UPDATE inventory SET f = ?, ... on one row.
SetFields(row, uf) ==
    [f \in DOMAIN row |->
        IF \E i \in 1..Len(uf) : uf[i].field = f
        THEN uf[CHOOSE i \in 1..Len(uf) : uf[i].field = f].value
        ELSE row[f]]

\* An UPDATE without its WHERE clause.
UpdateNoWhere(item_id, uf) ==
    [i \in DOMAIN inventory |-> SetFields(inventory[i], uf)]

\* UPDATE inventory SET ... WHERE id = ? (main.py:107).
Update(item_id, uf) ==
    [i \in DOMAIN inventory |->
        IF i = item_id THEN SetFields(inventory[i], uf) ELSE inventory[i]]

\* update_item printing the confirmation whatever cursor.rowcount is.
UpdateOutIgnoresRowcount(item_id, kwargs) ==
    IF kwargs = <<>> THEN "no_data"
    ELSE IF KwCheck(kwargs) # "ok" THEN KwCheck(kwargs)
    ELSE IF update_fields(kwargs) = <<>> THEN "no_fields"
    ELSE "updated"

\* What update_item prints.
UpdateOut(item_id, kwargs) ==
    IF kwargs = <<>> THEN "no_data"
    ELSE IF KwCheck(kwargs) # "ok" THEN KwCheck(kwargs)
    ELSE IF update_fields(kwargs) = <<>> THEN "no_fields"
    ELSE IF item_id \in DOMAIN inventory THEN "updated"
    ELSE "not_found"

\* An update_item that writes each field as the loop reaches it: the
\* entries before the one that raises are stored.
update_item_field_by_field(item_id, kwargs) ==
    LET Raises(k) ==
            \/ Taken(kwargs[k]) /\ kwargs[k].field = "quantity" /\ kwargs[k].value < 0
            \/ /\ Taken(kwargs[k]) /\ kwargs[k].field = "purchase_date"
               /\ strptime(kwargs[k].value) # "ok"
        stop == IF \E k \in 1..Len(kwargs) : Raises(k)
                THEN CHOOSE k \in 1..Len(kwargs) :
                         Raises(k) /\ \A j \in 1..(k - 1) : ~Raises(j)
                ELSE Len(kwargs) + 1
    IN  /\ Called("update_item", [item_id |-> item_id, kwargs |-> kwargs],
                  UpdateOut(item_id, kwargs))
        /\ ret' = None
        /\ inventory' =
               IF kwargs # <<>>
               THEN Update(item_id, update_fields(SubSeq(kwargs, 1, stop - 1)))
               ELSE inventory
        /\ UNCHANGED <<sqlite_sequence, issued, varied, connections, watched>>

update_item(item_id, kwargs) ==
    LET args == [item_id |-> item_id, kwargs |-> kwargs]
    IN  IF UpdateOut(item_id, kwargs) \notin {"updated", "not_found"}
        THEN /\ Called("update_item", args, UpdateOut(item_id, kwargs))
             /\ ret' = None
             /\ UNCHANGED <<inventory, sqlite_sequence, issued, varied,
                            connections, watched>>
        ELSE \E engine \in Engine :
               /\ Connect
               /\ IF engine = "fails"
                  THEN Called("update_item", args, MsgDb) /\ inventory' = inventory
                  ELSE /\ Called("update_item", args, UpdateOut(item_id, kwargs))
                       /\ inventory' = Update(item_id, update_fields(kwargs))
               /\ ret' = None
               /\ UNCHANGED <<sqlite_sequence, issued, varied, watched>>

\* ------------------------------------------------------- delete_item

\* delete_item printing the confirmation whatever cursor.rowcount is.
DeleteOutIgnoresRowcount(item_id) == "deleted"

\* What delete_item prints.
DeleteOut(item_id) ==
    IF item_id \in DOMAIN inventory THEN "deleted" ELSE "not_found"

\* A delete_item whose statement is DELETE ... WHERE id >= ?.
delete_item_from(item_id) ==
    /\ Connect
    /\ Called("delete_item", [item_id |-> item_id], DeleteOut(item_id))
    /\ inventory' = [i \in {j \in DOMAIN inventory : j < item_id} |-> inventory[i]]
    /\ ret' = None
    /\ UNCHANGED <<sqlite_sequence, issued, varied, watched>>

delete_item(item_id) ==
    \E engine \in Engine :
        /\ Connect
        /\ IF engine = "fails"
           THEN /\ Called("delete_item", [item_id |-> item_id], MsgDelete)
                /\ inventory' = inventory
           ELSE /\ Called("delete_item", [item_id |-> item_id], DeleteOut(item_id))
                /\ inventory' = [i \in DOMAIN inventory \ {item_id} |-> inventory[i]]
        /\ ret' = None
        /\ UNCHANGED <<sqlite_sequence, issued, varied, watched>>

\* -------------------------------------------------------- read_items

\* A row as SELECT * returns it.
Row(i) ==
    <<i, inventory[i].name, inventory[i].category, inventory[i].quantity,
      inventory[i].purchase_date, inventory[i].status, inventory[i].location,
      inventory[i].responsible_person, inventory[i].notes>>

\* A column of row i as the text LIKE compares.
ColumnText(i, col) ==
    IF col = "id" THEN IntText(i)
    ELSE IF col \in IntegerColumns THEN IntText(inventory[i][col])
    ELSE inventory[i][col]

\* SQLite folds the case of ASCII letters in LIKE.
Lower(c) == CASE c = "A" -> "a" [] c = "B" -> "b" [] OTHER -> c

\* text LIKE pattern: % is any run of characters, _ any one character.
RECURSIVE Like(_, _)
Like(t, p) ==
    IF p = <<>> THEN t = <<>>
    ELSE IF Head(p) = "%"
         THEN Like(t, Tail(p)) \/ (t # <<>> /\ Like(Tail(t), p))
    ELSE /\ t # <<>>
         /\ (Head(p) = "_" \/ Lower(Head(p)) = Lower(Head(t)))
         /\ Like(Tail(t), Tail(p))

\* Python truthiness of a filter value (main.py:63).
Truthy(e) == IF e.kind = "int" THEN e.value # 0 ELSE e.value # E

\* f"%{value}%" (main.py:65).
Pattern(e) ==
    <<"%">> \o (IF e.kind = "int" THEN IntText(e.value) ELSE e.value) \o <<"%">>

conditions(filters) == SelectSeq(filters, Truthy)

\* The column names in the WHERE clause of the query main.py:71 executes.
QueryKeys(filters) ==
    {conditions(filters)[k].key : k \in 1..Len(conditions(filters))}

Matches(i, conds) ==
    \A k \in 1..Len(conds) : Like(ColumnText(i, conds[k].key), Pattern(conds[k]))

RECURSIVE TextLess(_, _)
TextLess(a, b) ==
    IF b = <<>> THEN FALSE
    ELSE IF a = <<>> THEN TRUE
    ELSE IF Head(a) # Head(b) THEN Ord(Head(a)) < Ord(Head(b))
    ELSE TextLess(Tail(a), Tail(b))

\* The rows ids as a full scan without ORDER BY returns them: by rowid.
OrderedByRowid(ids) ==
    {[k \in 1..Cardinality(ids) |-> Row(p[k])] :
        p \in {q \in [1..Cardinality(ids) -> ids] :
                 \A a, b \in 1..Cardinality(ids) : a < b => q[a] < q[b]}}

\* Row i comes before row j under ORDER BY name: names compare bytewise
\* (BINARY collation); SQLite scans the table by rowid and its sorter keeps
\* rows of equal name in the order scanned.
ComesBefore(i, j) ==
    \/ TextLess(inventory[i].name, inventory[j].name)
    \/ inventory[i].name = inventory[j].name /\ i < j

\* The list SELECT ... ORDER BY name returns for the rows ids (a set of
\* one list).
Ordered(ids) ==
    {[k \in 1..Cardinality(ids) |-> Row(p[k])] :
        p \in {q \in [1..Cardinality(ids) -> ids] :
                 \A a, b \in 1..Cardinality(ids) : a < b => ComesBefore(q[a], q[b])}}

\* What read_items(filters) may return in the current state, with what
\* it prints: an unknown column is sqlite3.OperationalError, caught at
\* main.py:74-76.
Results(filters) ==
    LET conds == conditions(filters)
    IN  IF \E k \in 1..Len(conds) : conds[k].key \notin Columns
        THEN {[out |-> MsgRead, ret |-> List(<<>>)]}
        ELSE {[out |-> "none", ret |-> List(rows)] :
                 rows \in Ordered({i \in DOMAIN inventory : Matches(i, conds)})}

read_items(filters) ==
    /\ Connect
    /\ \E engine \in Engine :
         \E r \in IF engine = "fails"
                  THEN {[out |-> MsgRead, ret |-> List(<<>>)]}
                  ELSE Results(filters) :
           /\ Called("read_items", [filters |-> filters], r.out)
           /\ ret' = r.ret
    /\ UNCHANGED <<inventory, sqlite_sequence, issued, varied, watched>>

\* ----------------------------------------------------------- init_db

\* An init_db that drops the table and creates it again.
init_db_recreates ==
    /\ Connect
    /\ Called("init_db", <<>>, "none")
    /\ ret' = None
    /\ inventory' = <<>>
    /\ sqlite_sequence' = 0
    /\ UNCHANGED <<issued, varied, watched>>

\* CREATE TABLE IF NOT EXISTS on the table that exists (main.py:9-25).
init_db ==
    /\ Connect
    /\ Called("init_db", <<>>, "none")
    /\ ret' = None
    /\ UNCHANGED <<inventory, sqlite_sequence, issued, varied, watched>>

\* The garbage collector frees the connections the finished calls left.
collect ==
    /\ connections > 0
    /\ connections' = 0
    /\ UNCHANGED <<inventory, sqlite_sequence, last, ret, before, issued, varied,
                   watched>>

\* ------------------------------------------------------ specification

\* InventoryManager(db_name) on a new file: init_db has created the empty
\* table.
Constructed ==
    /\ inventory = <<>>
    /\ sqlite_sequence = 0
    /\ last = [op |-> "init_db", args |-> <<>>, out |-> "none"]
    /\ ret = None
    /\ before = <<>>
    /\ issued = <<>>

Init ==
    /\ Constructed
    /\ varied \in Profiles
    /\ connections = 0
    /\ watched = FALSE

\* The calls of each profile, computed once.
CreateCallsOf == [v \in Profiles |-> CreateCalls(v)]
KwargsOf == [v \in Profiles |-> Kwargs(v)]

Next ==
    \/ \E c \in CreateCallsOf[varied] :
           create_item(c.name, c.category, c.quantity, c.purchase_date, c.status,
                       c.location, c.responsible_person, c.notes)
    \/ \E item_id \in ItemIds, kwargs \in KwargsOf[varied] : update_item(item_id, kwargs)
    \/ \E item_id \in ItemIds : delete_item(item_id)
    \/ \E filters \in Filters : read_items(filters)
    \/ init_db

Spec == Init /\ [][Next]_vars

\* The behaviours of create_item alone, called with every combination of
\* a name, a quantity and a purchase_date.
InitCreate ==
    /\ Constructed
    /\ varied = {"name", "quantity", "purchase_date"}
    /\ connections = 0
    /\ watched = FALSE

NextCreate ==
    \E c \in CreateCalls(varied) :
        create_item(c.name, c.category, c.quantity, c.purchase_date, c.status,
                    c.location, c.responsible_person, c.notes)

SpecCreate == InitCreate /\ [][NextCreate]_vars

\* The behaviours that watch the storage engine: the connection init_db
\* opened in the constructor is open, any statement may fail, and the
\* garbage collector runs when it will.
InitStorage ==
    /\ Constructed
    /\ varied = {"notes"}
    /\ connections = 1
    /\ watched = TRUE

NextStorage == Next \/ collect

SpecStorage == InitStorage /\ [][NextStorage]_vars

\* -------------------------------------------------------------- claims
\* In a state reached by a call, last holds the call, before the table
\* the call found and inventory the table it left.

RequiredColumns == {"name", "category", "purchase_date", "status", "location"}

\* The fields spec section 3 lets update change: every column but id.
MutableColumns == Columns \ {"id"}

ValueErrors == {MsgRequired, MsgNegative, MsgNoMatch, MsgUnconverted, MsgOutOfRange}

Did(op) == last.op = op

\* kwargs carries a value (not None) for column f.
Supplies(kwargs, f) ==
    \E k \in 1..Len(kwargs) : kwargs[k].field = f /\ kwargs[k].kind = "value"

Supplied(kwargs, f) ==
    kwargs[CHOOSE k \in 1..Len(kwargs) :
               kwargs[k].field = f /\ kwargs[k].kind = "value"].value

NegativeQuantity(kwargs) ==
    Supplies(kwargs, "quantity") /\ Supplied(kwargs, "quantity") < 0

BadDate(kwargs) ==
    Supplies(kwargs, "purchase_date")
    /\ strptime(Supplied(kwargs, "purchase_date")) # "ok"

\* C1: in every reachable state every stored record has a non-empty name,
\* category, purchaseDate, status and location.
C1_RequiredFieldsNeverEmpty ==
    \A i \in DOMAIN inventory : \A f \in RequiredColumns : inventory[i][f] # E

QuantitiesUnchanged ==
    /\ DOMAIN inventory = DOMAIN before
    /\ \A i \in DOMAIN inventory : inventory[i].quantity = before[i].quantity

\* C2: every stored record has quantity >= 0, and a create or an update
\* that supplies a negative quantity changes no stored quantity.
C2_QuantityNeverNegative ==
    /\ \A i \in DOMAIN inventory : inventory[i].quantity >= 0
    /\ Did("create_item") /\ last.args.quantity < 0 => QuantitiesUnchanged
    /\ Did("update_item") /\ NegativeQuantity(last.args.kwargs) => QuantitiesUnchanged

C2_Witness ==
    /\ Did("update_item") /\ NegativeQuantity(last.args.kwargs)
    /\ last.args.item_id \in DOMAIN inventory
    /\ inventory[last.args.item_id].quantity = 1

\* What C3 calls a create_item call that fails validation.
FailsValidation(c) ==
    \/ \E f \in RequiredColumns : c[f] = E
    \/ c.quantity < 0
    \/ strptime(c.purchase_date) # "ok"

\* C3: a create_item call that fails validation (a required field empty,
\* quantity < 0, or a purchaseDate that strptime does not parse) writes no
\* row: the stored records after the call are those before it.
C3_RejectedCreateWritesNothing ==
    Did("create_item") /\ FailsValidation(last.args) => inventory = before

C3_Witness ==
    /\ Did("create_item") /\ last.args.purchase_date = D_month13
    /\ last.out = MsgNoMatch
    /\ DOMAIN inventory # {}

\* C4: update_item is all-or-nothing: when a supplied quantity is negative
\* or a supplied purchaseDate does not parse, no field of any record is
\* written, whatever else the mapping holds and in whatever order, and a
\* validation failure (a ValueError) is reported.
C4_UpdateAllOrNothing ==
    Did("update_item")
    /\ (NegativeQuantity(last.args.kwargs) \/ BadDate(last.args.kwargs))
        => inventory = before /\ last.out \in ValueErrors

\* A valid quantity comes first, the date that fails second.
C4_Witness ==
    /\ Did("update_item") /\ last.args.item_id \in DOMAIN inventory
    /\ Len(last.args.kwargs) = 2
    /\ last.args.kwargs[1] = KwValue("quantity", 0)
    /\ last.args.kwargs[2] = KwValue("purchase_date", D_dmy)
    /\ inventory[last.args.item_id].quantity = 1

\* C5: a successful update_item(id, fields) overwrites exactly the fields
\* supplied with a value in the row of that id: the row keeps its id, every
\* column the mapping does not supply (absent, or given as None) keeps its
\* value, and every other record is unchanged.
C5_UpdateFrame ==
    Did("update_item") /\ last.out = "updated"
        => /\ DOMAIN inventory = DOMAIN before
           /\ last.args.item_id \in DOMAIN before
           /\ \A i \in DOMAIN before \ {last.args.item_id} : inventory[i] = before[i]
           /\ \A f \in MutableColumns :
                  inventory[last.args.item_id][f] =
                      IF Supplies(last.args.kwargs, f)
                      THEN Supplied(last.args.kwargs, f)
                      ELSE before[last.args.item_id][f]

C5_Witness ==
    /\ Did("update_item") /\ last.out = "updated"
    /\ Cardinality(DOMAIN inventory) = 2
    /\ inventory[last.args.item_id] # before[last.args.item_id]
    /\ \E f \in MutableColumns :
           /\ ~Supplies(last.args.kwargs, f)
           /\ \E i \in DOMAIN inventory :
                  inventory[i][f] # inventory[last.args.item_id][f]

\* C6: update_item with a mapping that holds no recognized field (empty,
\* or unrecognized names only) is rejected as having nothing to update and
\* changes no stored record.
C6_NothingToUpdate ==
    Did("update_item")
    /\ (\A k \in 1..Len(last.args.kwargs) :
            last.args.kwargs[k].field \notin MutableColumns)
        => last.out \in {"no_data", "no_fields"} /\ inventory = before

C6_Witness ==
    /\ Did("update_item") /\ last.args.kwargs = <<KwValue("id", 2)>>
    /\ last.args.item_id \in DOMAIN inventory

\* C7: update_item with valid fields on an id no stored record has reports
\* "not found", changes and creates no record, and reports no validation
\* or storage error.
C7_UpdateNotFound ==
    (/\ Did("update_item")
     /\ last.args.item_id \notin DOMAIN before
     /\ \E f \in MutableColumns : Supplies(last.args.kwargs, f)
     /\ ~NegativeQuantity(last.args.kwargs) /\ ~BadDate(last.args.kwargs))
        => last.out = "not_found" /\ inventory = before

C7_Witness ==
    /\ Did("update_item") /\ last.out = "not_found"
    /\ last.args.item_id \notin DOMAIN inventory
    /\ DOMAIN inventory # {}

\* C8: delete_item(id) of an existing record reports "removed" and leaves
\* no record with that id; delete_item of an id no record has reports
\* "not found" and changes nothing; and a second delete_item(id) right after
\* a first that removed the record reports "not found".
C8_DeleteTwice ==
    /\ [](Did("delete_item") /\ last.args.item_id \in DOMAIN before
              => last.out = "deleted" /\ last.args.item_id \notin DOMAIN inventory)
    /\ [](Did("delete_item") /\ last.args.item_id \notin DOMAIN before
              => last.out = "not_found" /\ inventory = before)
    /\ [][Did("delete_item") /\ last.out = "deleted"
          /\ delete_item(last.args.item_id)
              => last'.out = "not_found"]_vars

C8_Witness ==
    /\ Did("delete_item") /\ last.out = "not_found"
    /\ last.args.item_id \in Range(issued)
    /\ DOMAIN inventory # {}

\* The row create_item(c) stores under id.
CreatedRow(id, c) ==
    <<id, c.name, c.category, c.quantity, c.purchase_date, c.status, c.location,
      c.responsible_person, c.notes>>

\* Every list a query by id may return holds the row r.
QueryByIdHolds(id, r) ==
    \A q \in Results(<<FilterInt("id", id)>>) :
        q.out = "none" /\ \E k \in 1..Len(q.ret.rows) : q.ret.rows[k] = r

\* C9 as stated: for valid inputs create_item returns the created record
\* with its id.
C9_CreateReturnsRecord ==
    Did("create_item") /\ ~FailsValidation(last.args)
        => ~ret.none /\ ret.rows = <<CreatedRow(sqlite_sequence, last.args)>>

\* C9 amended: for valid inputs create_item stores the record under a new
\* id and returns None, and a query by that id right afterwards returns a
\* list holding a record whose eight fields are the inputs, with that id.
C9_CreateThenQuery ==
    Did("create_item") /\ ~FailsValidation(last.args)
        => /\ ret = None
           /\ sqlite_sequence \notin DOMAIN before
           /\ QueryByIdHolds(sqlite_sequence, CreatedRow(sqlite_sequence, last.args))

C9_Witness ==
    /\ Did("create_item") /\ last.out = "added" /\ ret = None
    /\ Cardinality(DOMAIN inventory) = 2
    /\ last.args.responsible_person = E /\ last.args.notes = E

\* C10: the id a successful create gives is greater than every id given
\* before, so no id is reused, also after the record of the highest id was
\* deleted; and no operation changes the id of an existing record: only
\* create_item adds an id (the new one) and only delete_item removes one
\* (its argument).
C10_IdsFreshAndMonotonic ==
    /\ \A j, k \in 1..Len(issued) : j < k => issued[j] < issued[k]
    /\ DOMAIN inventory \subseteq Range(issued)
    /\ \A i \in DOMAIN inventory \ DOMAIN before :
           Did("create_item") /\ i = issued[Len(issued)]
    /\ \A i \in DOMAIN before \ DOMAIN inventory :
           Did("delete_item") /\ i = last.args.item_id
    /\ Did("create_item") /\ last.out = "added"
           => issued[Len(issued)] \in DOMAIN inventory \ DOMAIN before

\* A create after the record of the highest id was deleted.
C10_Witness ==
    /\ Did("create_item") /\ last.out = "added"
    /\ Len(issued) = 2
    /\ DOMAIN inventory = {issued[2]}

\* t holds p as a literal substring.
Contains(t, p) ==
    \E k \in 1..(Len(t) - Len(p) + 1) : SubSeq(t, k, k + Len(p) - 1) = p

\* The text of a filter value.
FilterText(e) == IF e.kind = "int" THEN IntText(e.value) ELSE e.value

\* The ids of the rows a list holds, and the ids C11 says read_items
\* returns: the rows that hold every non-empty pattern literally.
ReturnedIds(rows) == {rows[k][1] : k \in 1..Len(rows)}

LiteralMatches(filters) ==
    {i \in DOMAIN inventory :
        \A k \in 1..Len(filters) :
            FilterText(filters[k]) # E
                => Contains(ColumnText(i, filters[k].key), FilterText(filters[k]))}

\* C11: read_items(filters), for filters on columns of the table, returns
\* exactly the stored records that hold every non-empty pattern as a literal
\* substring of the named column, each once; with no filters it returns
\* every stored record.
C11_ReadReturnsLiteralMatches ==
    (/\ Did("read_items")
     /\ \A k \in 1..Len(last.args.filters) : last.args.filters[k].key \in Columns)
        => /\ ~ret.none
           /\ ReturnedIds(ret.rows) = LiteralMatches(last.args.filters)
           /\ Len(ret.rows) = Cardinality(LiteralMatches(last.args.filters))
           /\ \A k \in 1..Len(ret.rows) : ret.rows[k] = Row(ret.rows[k][1])

\* C12: no key of the filter mapping that is not a column of the table
\* becomes part of the query read_items executes.
C12_OnlyColumnsInQuery ==
    Did("read_items") => QueryKeys(last.args.filters) \subseteq Columns

StorageErrors == {MsgDb, MsgRead, MsgDelete}

\* C14: when the storage engine fails during create, query, update or
\* delete, the caller gets the failure (not the None or the empty list a
\* normal call returns) and nothing is written.
C14_StorageErrorPropagates ==
    last.out \in StorageErrors
        => ret # None /\ ret # List(<<>>) /\ inventory = before

\* C15: after every completed operation no connection is open.
C15_ConnectionsReleased ==
    watched => connections = 0

\* C16: update_item is idempotent: a call of update_item right after a call
\* with the same id and the same mapping changes no record and reports what
\* the first call reported.
C16_UpdateIdempotent ==
    [][Did("update_item") /\ last.out \notin StorageErrors
       /\ last'.op = "update_item" /\ last'.args = last.args
       /\ update_item(last.args.item_id, last.args.kwargs)
       /\ last'.out \notin StorageErrors
           => inventory' = inventory /\ last'.out = last.out]_vars

\* An update that sets the name to "" found it set to "": no call but an
\* update with that value stores an empty name.
C16_Witness ==
    /\ Did("update_item") /\ last.out = "updated"
    /\ last.args.kwargs = <<KwValue("name", E)>>
    /\ before[last.args.item_id].name = E
    /\ inventory = before

\* C17: init_db on a store whose table exists changes no stored record and
\* leaves the id sequence where it was: at the largest id ever given.
C17_InitDbNoOp ==
    Did("init_db")
        => /\ inventory = before
           /\ sqlite_sequence = Max({0} \cup Range(issued))

\* init_db ran on a table that holds a record and has lost the record of
\* the highest id.
C17_Witness ==
    /\ Did("init_db")
    /\ DOMAIN inventory # {}
    /\ sqlite_sequence \notin DOMAIN inventory

DateErrors == {MsgNoMatch, MsgUnconverted, MsgOutOfRange}

\* C18: create_item reports the first rule that fails: the missing field
\* when a required field is empty, whatever the quantity and the date; the
\* negative quantity when no required field is empty, whatever the date;
\* and an invalid date only when the first two rules pass.
C18_FirstFailingRuleReported ==
    Did("create_item") =>
        /\ (\E f \in RequiredColumns : last.args[f] = E) => last.out = MsgRequired
        /\ (\A f \in RequiredColumns : last.args[f] # E) /\ last.args.quantity < 0
               => last.out = MsgNegative
        /\ last.out \in DateErrors
               => /\ \A f \in RequiredColumns : last.args[f] # E
                  /\ last.args.quantity >= 0
                  /\ last.out = strptime(last.args.purchase_date)

\* All three rules fail at once.
C18_Witness ==
    /\ Did("create_item") /\ last.out = MsgRequired
    /\ last.args.name = E /\ last.args.quantity < 0
    /\ last.args.purchase_date = D_month13

\* C19: when the mapping of update_item mixes recognized and unrecognized
\* names (and nothing fails validation, and the id exists), the update
\* succeeds and writes exactly the recognized fields supplied: the value
\* under the unrecognized name is not applied, the row keeps its id, and no
\* other record changes.
C19_UnrecognizedIgnored ==
    (/\ Did("update_item")
     /\ \E k \in 1..Len(last.args.kwargs) :
            last.args.kwargs[k].field \notin MutableColumns
     /\ \E f \in MutableColumns : Supplies(last.args.kwargs, f)
     /\ ~NegativeQuantity(last.args.kwargs) /\ ~BadDate(last.args.kwargs)
     /\ last.args.item_id \in DOMAIN before)
        => /\ last.out = "updated"
           /\ DOMAIN inventory = DOMAIN before
           /\ \A i \in DOMAIN before \ {last.args.item_id} : inventory[i] = before[i]
           /\ \A f \in MutableColumns :
                  inventory[last.args.item_id][f] =
                      IF Supplies(last.args.kwargs, f)
                      THEN Supplied(last.args.kwargs, f)
                      ELSE before[last.args.item_id][f]

\* update_item(1, id=2, notes="n") on two records.
C19_Witness ==
    /\ Did("update_item") /\ last.out = "updated"
    /\ last.args.item_id = 1
    /\ last.args.kwargs = <<KwValue("id", 2), KwValue("notes", <<"n">>)>>
    /\ DOMAIN inventory = {1, 2}
    /\ before[1].notes = E /\ inventory[1].notes = <<"n">>
    /\ inventory[2].notes = E

\* C20: the set of stored ids changes only by a successful create_item,
\* which adds one new id and changes no record that was there, and by
\* delete_item(id), which removes that id only and changes no other record;
\* update_item, read_items and init_db add and remove nothing, and
\* read_items changes no field.
C20_RecordLifecycle ==
    /\ Did("create_item") /\ last.out = "added"
           => /\ \E id \in ItemIds \ DOMAIN before :
                      DOMAIN inventory = DOMAIN before \cup {id}
              /\ \A i \in DOMAIN before : inventory[i] = before[i]
    /\ Did("create_item") /\ last.out # "added" => inventory = before
    /\ Did("delete_item")
           => /\ DOMAIN inventory = DOMAIN before \ {last.args.item_id}
              /\ \A i \in DOMAIN inventory : inventory[i] = before[i]
    /\ Did("update_item") \/ Did("init_db") => DOMAIN inventory = DOMAIN before
    /\ Did("read_items") => inventory = before

\* delete_item(1) took one of two records.
C20_Witness ==
    /\ Did("delete_item") /\ last.out = "deleted"
    /\ last.args.item_id = 1
    /\ DOMAIN before = {1, 2} /\ DOMAIN inventory = {2}

====
